---- MODULE Spec2Model ----
(***************************************************************************)
(* A model of the catalog notebook (src/plot-catalog.ipynb): reading a     *)
(* delimited text file into a Table with ascii.read, resolving the masked  *)
(* values of a column with .filled(), converting a sexagesimal angle, and  *)
(* wrapping right ascensions at 180 degrees.                               *)
(*                                                                         *)
(* A text line is modelled already split on the delimiter: a record with   *)
(* a comment flag (the line starts with '#') and the sequence of its       *)
(* fields.  Numbers are integers: a float is held in tenths, an angle in   *)
(* tenths of a degree, a converted sexagesimal angle in 1/360000 degree.   *)
(***************************************************************************)
EXTENDS Integers, Sequences, FiniteSets, TLC

VARIABLES
    file,     \* the lines of the text file handed to ascii.read
    opts,     \* the keyword arguments of the last ascii.read call
    tbl,      \* the Table the last ascii.read call returned
    ingested, \* history: tbl as it was when ascii.read returned it
    dense,    \* the result of the last .filled() call
    ra,       \* the wrapped right ascensions (notebook variable ra)
    x,        \* an angle handed to wrap_at, in tenths of a degree
    W,        \* the wrap boundary, in tenths of a degree
    y,        \* the wrapped angle
    txt,      \* a sexagesimal text, split into sign and three components
    unit,     \* the unit the text is read in: "hour" or "deg"
    deg,      \* the converted angle in degrees, as sign and magnitude
    pc        \* the position in the notebook

vars == <<file, opts, tbl, ingested, dense, ra, x, W, y, txt, unit, deg, pc>>

(***************************************************************************)
(* Bounds of the model.                                                    *)
(***************************************************************************)
MaxLines == 3        \* non-comment lines of a file
MaxAngle == 4000     \* |x| handed to wrap_at, tenths of a degree
MaxLead == 23        \* leading component of a sexagesimal text

(***************************************************************************)
(* Values of table cells.  Every value has the same shape, so that values  *)
(* of different kinds can be compared.                                     *)
(***************************************************************************)
StrV(s) == [k |-> "str", v |-> 0, s |-> s]
IntV(n) == [k |-> "int", v |-> n, s |-> ""]
FloatV(t) == [k |-> "float", v |-> t, s |-> ""]
NaN == [k |-> "nan", v |-> 0, s |-> ""]

(***************************************************************************)
(* The fields a line of the model can hold.  Column 1 holds text (a column *)
(* name on a header line, an object's name on a data line), column 2 a     *)
(* column name or a number; a field may be blank.  "col1" is a column name *)
(* that reads like a default name.                                         *)
(***************************************************************************)
Field1 == {"", "Name"}
Field2 == {"", "RA", "col1", "7", "200.5"}
IntLiterals == {"7"}
FloatLiterals == {"7", "200.5"}

PlainLines == {[comment |-> FALSE, fields |-> <<a, b>>] : a \in Field1, b \in Field2}
CommentLines == {[comment |-> TRUE, fields |-> <<"comment">>],
                 [comment |-> TRUE, fields |-> <<"Name", "RA">>]}

\* The text of an integer literal as a number.
ParseInt(c) == CASE c = "7" -> 7

\* The text of a floating-point literal as a number, in tenths.
ParseFloat(c) == CASE c = "7" -> 70 [] c = "200.5" -> 2005

(***************************************************************************)
(* Type inference and conversion of a column's cells.                      *)
(***************************************************************************)
\* A cell with no text is a missing value.
IsMissing(c) == c = ""

\* The cells of a column that are not missing, in order.
Present(cells) == SelectSeq(cells, LAMBDA c : ~IsMissing(c))

AllIn(cells, S) == \A i \in 1..Len(cells) : cells[i] \in S

\* Of a numeric column: integer if every cell reads as an integer.
NumericKind(cells) == IF AllIn(cells, IntLiterals) THEN "int" ELSE "float"

\* A mistaken inference: a missing cell counts as text that is no number.
InferTypeCountingMissing(cells) ==
    IF AllIn(cells, FloatLiterals) THEN NumericKind(cells) ELSE "str"

\* The type of a column: numeric when every cell that is not missing reads
\* as a number, string as soon as one of them does not.
InferType(cells) ==
    IF AllIn(Present(cells), FloatLiterals)
    THEN NumericKind(Present(cells))
    ELSE "str"

\* The value a cell holds in a column of the given type.  A missing cell
\* holds the type's zero under its mask.
Convert(type, c) ==
    CASE type = "int" -> IntV(IF IsMissing(c) THEN 0 ELSE ParseInt(c))
      [] type = "float" -> FloatV(IF IsMissing(c) THEN 0 ELSE ParseFloat(c))
      [] OTHER -> StrV(c)

\* The cells of column j of the given lines.
ColumnCells(rows, j) == [i \in 1..Len(rows) |-> rows[i].fields[j]]

\* The Table with the given column names whose rows are the given lines.
MakeTable(names, rows) ==
    [names |-> names,
     types |-> [j \in 1..Len(names) |-> InferType(ColumnCells(rows, j))],
     cols |-> [j \in 1..Len(names) |->
                 [i \in 1..Len(rows) |->
                     Convert(InferType(ColumnCells(rows, j)), rows[i].fields[j])]],
     mask |-> [j \in 1..Len(names) |->
                 [i \in 1..Len(rows) |-> IsMissing(rows[i].fields[j])]]]

NoTable == [names |-> <<>>, types |-> <<>>, cols |-> <<>>, mask |-> <<>>]

NumRows(t) == IF Len(t.cols) = 0 THEN 0 ELSE Len(t.cols[1])

(***************************************************************************)
(* ascii.read                                                              *)
(***************************************************************************)
\* The lines that do not start with the comment character, in order.
StripComments(lines) == SelectSeq(lines, LAMBDA l : ~l.comment)

HasComment(lines) == \E i \in 1..Len(lines) : lines[i].comment

\* The reader can parse column names out of a line: no field is blank or
\* reads as a number.
NamesParse(fields) ==
    \A i \in 1..Len(fields) : fields[i] # "" /\ fields[i] \notin FloatLiterals

\* A mistaken default: every column gets the same name.
SameFallbackName(n) == [i \in 1..n |-> "col"]

\* The default names: col followed by the number of the column.
FallbackNames(n) == [i \in 1..n |-> "col" \o ToString(i)]

\* A different reader: only the blank names are replaced.
PerNameFallback(fields) ==
    [i \in 1..Len(fields) |->
        IF fields[i] = "" THEN "col" \o ToString(i) ELSE fields[i]]

\* The column names read from a header line: its fields, or the default
\* names for all columns when the names cannot be parsed out.
HeaderNames(fields) ==
    IF NamesParse(fields) THEN fields ELSE FallbackNames(Len(fields))

\* A different reader: a commented line is never a header.
NeverCommentedHeader(lines) == FALSE

\* The file starts with a commented header: a line starting with '#' whose
\* text holds one column name per field of the data lines.
CommentedHeaderApplies(lines) ==
    /\ lines[1].comment
    /\ Len(lines[1].fields) = Len(StripComments(lines)[1].fields)
    /\ NamesParse(lines[1].fields)

\* A different default: the data start on the line after the header.
DataStartAfterHeader(header_start) == header_start + 1

\* The default data_start: the data are assumed to start on the second
\* row (index 1), wherever the header is.
DefaultDataStart(header_start) == 1

\* The lines from index start (0-based) on.
DataLines(lines, start) == SubSeq(lines, start + 1, Len(lines))

\* ascii.read(file): the reader guesses the layout.
ReadGuess(lines) ==
    LET plain == StripComments(lines)
    IN  IF CommentedHeaderApplies(lines)
        THEN MakeTable(lines[1].fields, plain)
        ELSE IF NamesParse(plain[1].fields)
        THEN MakeTable(HeaderNames(plain[1].fields),
                       DataLines(plain, DefaultDataStart(0)))
        ELSE MakeTable(HeaderNames(plain[1].fields), plain)

\* ascii.read(file, header_start=..[, data_start=..]).
ReadWith(lines, o) ==
    MakeTable(HeaderNames(lines[o.header_start + 1].fields),
              DataLines(lines, IF o.data_given
                               THEN o.data_start
                               ELSE DefaultDataStart(o.header_start)))

(***************************************************************************)
(* Missing-value resolution and the angles derived from a column.          *)
(***************************************************************************)
\* A mistaken fill: every position gets the fill value.
FilledEverywhere(col, mask, f) == [i \in 1..Len(col) |-> f]

\* column.filled(f): a new column, the fill value where the mask is set.
Filled(col, mask, f) == [i \in 1..Len(col) |-> IF mask[i] THEN f ELSE col[i]]

\* A fill value a column of the given type can hold.
Compatible(type, f) ==
    \/ type = "float" /\ f.k \in {"float", "nan"}
    \/ type = "int" /\ f.k = "int"

\* The column has missing values (it is a masked column).
IsMasked(t, j) == \E i \in 1..Len(t.mask[j]) : t.mask[j][i]

\* 360 degrees, in tenths of a degree.
Turn == 360 * 10

\* A mistaken wrap: the remainder takes the sign of the dividend.
WrapTruncating(a, w) ==
    LET d == a - (w - Turn)
        r == IF d >= 0 THEN d % Turn ELSE -((-d) % Turn)
    IN  r + (w - Turn)

\* angle.wrap_at(w): the equivalent angle in [w - 360, w).
Wrap(a, w) == ((a - (w - Turn)) % Turn) + (w - Turn)

\* wrap_at on a column value: not-a-number stays not-a-number.
WrapValue(val, w) == IF val.k = "nan" THEN val ELSE FloatV(Wrap(val.v, w))

\* The boundary the notebook wraps at: 180 degrees.
WrapBoundary == 180 * 10

NoDense == [col |-> 0, fill |-> NaN, vals |-> <<>>]
NoOpts ==
    [header_given |-> FALSE, header_start |-> 0,
     data_given |-> FALSE, data_start |-> 0]
Fills == {NaN, FloatV(-10), IntV(-1)}

(***************************************************************************)
(* The notebook's steps on a file.                                         *)
(***************************************************************************)
Bodies == UNION {[1..n -> PlainLines] : n \in 1..MaxLines}
Leads == {<<>>} \cup {<<c>> : c \in CommentLines}
Files == {lead \o body : lead \in Leads, body \in Bodies}

\* The state a call of ascii.read leaves.
Loaded(t, o) ==
    /\ tbl' = t
    /\ ingested' = t
    /\ opts' = o
    /\ dense' = NoDense
    /\ ra' = <<>>
    /\ pc' = "table"
    /\ UNCHANGED <<file, x, W, y, txt, unit, deg>>

\* tbl = ascii.read(file)
ReadDefault ==
    /\ pc \in {"file", "table"}
    /\ Loaded(ReadGuess(file), NoOpts)

\* tbl = ascii.read(file, header_start=..)
ReadHeaderStart ==
    /\ pc \in {"file", "table"}
    /\ ~HasComment(file)
    /\ \E header_start \in 0..(Len(file) - 1) :
          /\ NamesParse(file[header_start + 1].fields)
          /\ LET o == [header_given |-> TRUE, header_start |-> header_start,
                       data_given |-> FALSE, data_start |-> 0]
             IN  Loaded(ReadWith(file, o), o)

\* tbl = ascii.read(file, header_start=.., data_start=..)
ReadHeaderStartDataStart ==
    /\ pc \in {"file", "table"}
    /\ ~HasComment(file)
    /\ \E header_start \in 0..(Len(file) - 1), data_start \in 0..Len(file) :
          /\ NamesParse(file[header_start + 1].fields)
          /\ LET o == [header_given |-> TRUE, header_start |-> header_start,
                       data_given |-> TRUE, data_start |-> data_start]
             IN  Loaded(ReadWith(file, o), o)

\* A mistaken fill: the column of the table is filled in place.
FillColumnInPlace(j, f) ==
    /\ dense' = [col |-> j, fill |-> f, vals |-> Filled(tbl.cols[j], tbl.mask[j], f)]
    /\ tbl' = [tbl EXCEPT !.cols[j] = Filled(tbl.cols[j], tbl.mask[j], f),
                          !.mask[j] = [i \in 1..Len(tbl.mask[j]) |-> FALSE]]
    /\ UNCHANGED <<file, opts, ingested, ra, x, W, y, txt, unit, deg, pc>>

\* tbl[name].filled(f): the table is left as it is.
FillColumn(j, f) ==
    /\ dense' = [col |-> j, fill |-> f, vals |-> Filled(tbl.cols[j], tbl.mask[j], f)]
    /\ UNCHANGED <<file, opts, tbl, ingested, ra, x, W, y, txt, unit, deg, pc>>

\* tbl[name].filled(f), on a masked numeric column.
FilledStep ==
    /\ pc = "table"
    /\ \E j \in 1..Len(tbl.names), f \in Fills :
          /\ IsMasked(tbl, j)
          /\ Compatible(tbl.types[j], f)
          /\ FillColumn(j, f)

\* ra = coord.Angle(data["RA"].filled(np.nan) * u.degree)
\* ra = ra.wrap_at(180 * u.degree)
MakeRa ==
    /\ pc = "table"
    /\ \E j \in 1..Len(tbl.names) :
          /\ tbl.names[j] = "RA"
          /\ tbl.types[j] = "float"
          /\ IsMasked(tbl, j)
          /\ ra' = [i \in 1..NumRows(tbl) |->
                       WrapValue(Filled(tbl.cols[j], tbl.mask[j], NaN)[i], WrapBoundary)]
    /\ UNCHANGED <<file, opts, tbl, ingested, dense, x, W, y, txt, unit, deg>>
    /\ pc' = "table"

Init ==
    /\ file \in Files
    /\ opts = NoOpts
    /\ tbl = NoTable
    /\ ingested = NoTable
    /\ dense = NoDense
    /\ ra = <<>>
    /\ x = 0
    /\ W = WrapBoundary
    /\ y = 0
    /\ txt = [minus |-> FALSE, a |-> 0, b |-> 0, c |-> 0]
    /\ unit = "hour"
    /\ deg = [neg |-> FALSE, mag |-> 0]
    /\ pc = "file"

Next ==
    \/ ReadDefault
    \/ ReadHeaderStart
    \/ ReadHeaderStartDataStart
    \/ FilledStep
    \/ MakeRa

Spec == Init /\ [][Next]_vars

(***************************************************************************)
(* Angles: the conversion of a sexagesimal text and wrap_at, on inputs of  *)
(* their own.  A sexagesimal text is its sign and its three components,    *)
(* the third in hundredths; the result is a sign and a magnitude in        *)
(* 1/360000 degree, so that a negative zero keeps its sign.                *)
(***************************************************************************)
Minutes == {0, 4, 51, 59}
CentiSeconds == {0, 284, 4800, 5999}
Texts == [minus : BOOLEAN, a : 0..MaxLead, b : Minutes, c : CentiSeconds]
Units == {"hour", "deg"}
WrapBoundaries == {-1800, 0, 900, 1800, 3600}

Abs(n) == IF n < 0 THEN -n ELSE n

\* The first component as a number: "-00" is 0.
LeadValue(t) == IF t.minus THEN -t.a ELSE t.a

\* |A| + B/60 + C/3600, in 1/360000 of the unit.
Magnitude(t) == Abs(LeadValue(t)) * 360000 + t.b * 6000 + t.c

\* A mistaken conversion: the sign is that of the first component's value.
SexagesimalSignOfLead(t, u) ==
    [neg |-> LeadValue(t) < 0,
     mag |-> (IF u = "hour" THEN 15 ELSE 1) * Magnitude(t)]

\* coord.Angle(text, unit=u).degree: the sign is the text's explicit sign,
\* and an angle in hours is 15 times as many degrees.
SexagesimalToDegrees(t, u) ==
    [neg |-> t.minus,
     mag |-> (IF u = "hour" THEN 15 ELSE 1) * Magnitude(t)]

InitAngle ==
    /\ file = <<>>
    /\ opts = NoOpts
    /\ tbl = NoTable
    /\ ingested = NoTable
    /\ dense = NoDense
    /\ ra = <<>>
    /\ y = 0
    /\ deg = [neg |-> FALSE, mag |-> 0]
    /\ pc = "angle"
    /\ \/ /\ x \in (-MaxAngle)..MaxAngle
          /\ W \in WrapBoundaries
          /\ txt = [minus |-> FALSE, a |-> 17, b |-> 51, c |-> 0]
          /\ unit = "hour"
       \/ /\ x = 0
          /\ W = WrapBoundary
          /\ txt \in Texts
          /\ unit \in Units

\* ra = coord.Angle(first_row["ra"], unit=u.hour); ra.degree
ConvertStep ==
    /\ pc = "angle"
    /\ deg' = SexagesimalToDegrees(txt, unit)
    /\ pc' = "converted"
    /\ UNCHANGED <<file, opts, tbl, ingested, dense, ra, x, W, y, txt, unit>>

\* angle.wrap_at(W)
WrapStep ==
    /\ pc = "angle"
    /\ y' = Wrap(x, W)
    /\ pc' = "wrapped"
    /\ UNCHANGED <<file, opts, tbl, ingested, dense, ra, x, W, txt, unit, deg>>

NextAngle == ConvertStep \/ WrapStep

SpecAngle == InitAngle /\ [][NextAngle]_vars

(***************************************************************************)
(* Properties.                                                             *)
(***************************************************************************)
\* What the properties read off a state: the file's non-comment lines, the
\* line the column names were asked from, and the lines that became rows
\* (the rows of a table are always the last lines of the file).
PlainOf == StripComments(file)
HeaderLine == PlainOf[(IF opts.header_given THEN opts.header_start ELSE 0) + 1].fields
RowsOf == SubSeq(PlainOf, Len(PlainOf) - NumRows(tbl) + 1, Len(PlainOf))
HasBlank(fields) == \E i \in 1..Len(fields) : fields[i] = ""
HasNumber(fields) == \E i \in 1..Len(fields) : fields[i] \in FloatLiterals

\* C1: wrap(x, W) lies in [W - 360, W) and differs from x by a multiple of
\* 360; wrap(x, 180) lies in [-180, 180), and 180 itself maps to -180.
C1_WrapInRange ==
    pc = "wrapped" =>
        /\ W - Turn <= y
        /\ y < W
        /\ (y - x) % Turn = 0
        /\ (W = 1800 => -1800 <= y /\ y < 1800)
        /\ (W = 1800 /\ x = 1800 => y = -1800)

C1_Witness == pc = "wrapped" /\ W = 1800 /\ x = 1800 /\ y = -1800

\* C2: filling a masked numeric column with a compatible value gives a
\* column of the same length that holds the fill value at every missing
\* position and the source column's value at every other position.
C2_FilledResolves ==
    dense # NoDense =>
        /\ Len(dense.vals) = NumRows(tbl)
        /\ \A i \in 1..NumRows(tbl) :
              /\ tbl.mask[dense.col][i] => dense.vals[i] = dense.fill
              /\ ~tbl.mask[dense.col][i] =>
                    /\ dense.vals[i] = tbl.cols[dense.col][i]
                    /\ dense.vals[i].k = tbl.types[dense.col]

C2_Witness ==
    /\ dense # NoDense
    /\ dense.fill = NaN
    /\ dense.vals = <<FloatV(2005), NaN, FloatV(70)>>

\* C3 as stated: the names of the header line are kept except the blank
\* ones, which alone get the positional name.
C3_Original ==
    (pc = "table" /\ ~opts.header_given /\ ~HasComment(file) /\ ~HasNumber(HeaderLine)) =>
        tbl.names = PerNameFallback(HeaderLine)

\* C3 as amended: the table has one column per field of the header line;
\* a header line of parseable names is kept verbatim; a default header
\* line with a blank field gives every column its positional name, and the
\* line stays in the table as a data row.
C3_GlobalFallback ==
    (pc = "table" /\ ~HasComment(file)) =>
        /\ Len(tbl.names) = Len(HeaderLine)
        /\ Len(tbl.cols) = Len(HeaderLine)
        /\ NamesParse(HeaderLine) => tbl.names = HeaderLine
        /\ (~opts.header_given /\ HasBlank(HeaderLine)) =>
              /\ \A j \in 1..Len(HeaderLine) : tbl.names[j] = "col" \o ToString(j)
              /\ NumRows(tbl) = Len(file)
              /\ \A j \in 1..Len(HeaderLine) :
                    tbl.mask[j][1] = (HeaderLine[j] = "")

C3_Witness ==
    /\ pc = "table"
    /\ ~opts.header_given
    /\ file[1] = [comment |-> FALSE, fields |-> <<"", "RA">>]
    /\ tbl.names = <<"col1", "col2">>

\* C4 as stated: without data_start the data begin on the line after the
\* header line.
C4_Original ==
    (pc = "table" /\ opts.header_given /\ ~opts.data_given) =>
        NumRows(tbl) = Len(file) - (opts.header_start + 1)

\* C4 as amended: without data_start the data begin on the second line,
\* wherever the header line is; a header line at index 1 or more is then a
\* row of the table and makes every column a string column; with
\* data_start the data begin on the line it names.
C4_DataStartDefault ==
    (pc = "table" /\ opts.header_given) =>
        /\ ~opts.data_given =>
              /\ NumRows(tbl) = Len(file) - 1
              /\ opts.header_start >= 1 =>
                    \A j \in 1..Len(tbl.names) :
                        /\ tbl.types[j] = "str"
                        /\ tbl.cols[j][opts.header_start] = StrV(tbl.names[j])
        /\ opts.data_given => NumRows(tbl) = Len(file) - opts.data_start

C4_Witness ==
    /\ pc = "table"
    /\ opts.header_given /\ opts.header_start = 1 /\ ~opts.data_given
    /\ Len(file) = 3
    /\ tbl.names = <<"Name", "RA">>
    /\ tbl.cols[2][1] = StrV("RA")
    /\ tbl.types = <<"str", "str">>

\* C5 as stated: the comment lines are removed first, so the first of the
\* other lines supplies the names and the lines after it are the rows.
C5_Original ==
    (pc = "table" /\ ~opts.header_given /\ NamesParse(PlainOf[1].fields)) =>
        /\ tbl.names = PlainOf[1].fields
        /\ NumRows(tbl) = Len(PlainOf) - 1

\* C5 as amended: no comment line becomes a row and the other lines keep
\* their order; a leading comment line with one parseable name per field
\* of the data lines supplies the column names, and every other line is
\* then a row; a comment line with another number of fields is skipped.
C5_CommentedHeader ==
    (pc = "table" /\ ~opts.header_given) =>
        /\ NumRows(tbl) <= Len(PlainOf)
        /\ \A j \in 1..Len(tbl.names) : \A i \in 1..NumRows(tbl) :
              /\ tbl.mask[j][i] = (RowsOf[i].fields[j] = "")
              /\ tbl.types[j] = "str" => tbl.cols[j][i] = StrV(RowsOf[i].fields[j])
        /\ (file[1].comment /\ Len(file[1].fields) = Len(PlainOf[1].fields)
               /\ NamesParse(file[1].fields)) =>
              /\ tbl.names = file[1].fields
              /\ NumRows(tbl) = Len(PlainOf)
        /\ (file[1].comment /\ Len(file[1].fields) # Len(PlainOf[1].fields)
               /\ NamesParse(PlainOf[1].fields)) =>
              /\ tbl.names = PlainOf[1].fields
              /\ NumRows(tbl) = Len(PlainOf) - 1
        /\ file = <<[comment |-> TRUE, fields |-> <<"comment">>],
                    [comment |-> FALSE, fields |-> <<"Name", "RA">>],
                    [comment |-> FALSE, fields |-> <<"Name", "200.5">>]>> =>
              /\ tbl.names = <<"Name", "RA">>
              /\ NumRows(tbl) = 1
              /\ tbl.cols[1][1] = StrV("Name")

C5_Witness ==
    /\ pc = "table"
    /\ ~opts.header_given
    /\ file = <<[comment |-> TRUE, fields |-> <<"Name", "RA">>],
                [comment |-> FALSE, fields |-> <<"Name", "200.5">>]>>
    /\ tbl.names = <<"Name", "RA">>
    /\ NumRows(tbl) = 1

\* C7: the conversion of [A, B, C] has magnitude |A| + B/60 + C/3600, times
\* 15 in hours, and is negative exactly when the text has a minus sign,
\* also when A is zero; "17:51:00.0" in hours is 267.75 degrees.
C7_Sexagesimal ==
    pc = "converted" =>
        /\ deg.neg = txt.minus
        /\ unit = "deg" => deg.mag = txt.a * 360000 + txt.b * 6000 + txt.c
        /\ unit = "hour" => deg.mag = 15 * (txt.a * 360000 + txt.b * 6000 + txt.c)
        /\ (txt = [minus |-> TRUE, a |-> 0, b |-> 4, c |-> 284]) =>
              deg.neg /\ deg.mag > 0
        /\ (txt = [minus |-> FALSE, a |-> 17, b |-> 51, c |-> 0] /\ unit = "hour") =>
              deg = [neg |-> FALSE, mag |-> 26775 * 3600]

C7_Witness ==
    /\ pc = "converted"
    /\ txt = [minus |-> TRUE, a |-> 0, b |-> 4, c |-> 284]
    /\ deg.neg
    /\ deg.mag > 0

C9_TypeInference ==
    pc = "table" =>
        \A j \in 1..Len(tbl.names) :
            LET cells == ColumnCells(RowsOf, j)
                here == {i \in 1..Len(cells) : cells[i] # ""}
            IN  /\ tbl.types[j] =
                      (IF \A i \in here : cells[i] \in IntLiterals THEN "int"
                       ELSE IF \A i \in here : cells[i] \in FloatLiterals THEN "float"
                       ELSE "str")
                /\ \A i \in 1..Len(cells) : tbl.mask[j][i] = (cells[i] = "")
                /\ cells = <<"200.5", "", "200.5">> =>
                      /\ tbl.types[j] = "float"
                      /\ tbl.mask[j] = <<FALSE, TRUE, FALSE>>
                /\ (\E i \in here : cells[i] \notin FloatLiterals) =>
                      tbl.types[j] = "str"

C9_Witness ==
    /\ pc = "table"
    /\ ColumnCells(RowsOf, 2) = <<"200.5", "", "200.5">>
    /\ tbl.types[2] = "float"
    /\ tbl.mask[2] = <<FALSE, TRUE, FALSE>>

\* C10: fill, angle conversion and wrap leave the table as ascii.read
\* returned it, so that a later fill with another value fills the positions
\* that were missing at ingestion.
C10_TableUnchanged ==
    /\ tbl = ingested
    /\ dense # NoDense =>
          \A i \in 1..NumRows(ingested) :
              ingested.mask[dense.col][i] <=> dense.vals[i] = dense.fill
    /\ ra # <<>> => Len(ra) = NumRows(ingested)

C10_Witness ==
    /\ ra # <<>>
    /\ dense # NoDense
    /\ dense.fill = FloatV(-10)
    /\ tbl.names[dense.col] = "RA"
    /\ \E i \in 1..NumRows(tbl) : tbl.mask[dense.col][i]

====
